---- MODULE Spec2Model ----
(***************************************************************************)
(* Model of the playlist organizer (src/playlist_organizer.py): the        *)
(* keyword registry, analyze_playlist_content, categorize_playlists and    *)
(* generate_reorganization_plan.                                           *)
(*                                                                         *)
(* Text is a sequence of characters.  A character is a one-character       *)
(* string for ASCII and the string "U+XXXX" (its code point) otherwise.    *)
(* A Python dict is a function; an absent key is absent from its DOMAIN.   *)
(* A float that the code computes is kept as an exact fraction             *)
(* [num, den] with den > 0.                                                *)
(***************************************************************************)
EXTENDS Integers, Sequences, FiniteSets, TLC

VARIABLES
    playlists_data,   \* self.playlists_data: None or the loaded snapshot
    load_result,      \* what load_data last returned (None before any call)
    categorized,      \* what categorize_playlists last returned
    plan,             \* what generate_reorganization_plan last returned
    input,            \* the playlist handed to analyze_playlist_content
    analysis,         \* analyze_playlist_content's locals at its return
    youtube,          \* YouTubePlaylistManager.youtube: TRUE once the client is built
    remote,           \* the account: playlist id -> its items, in order
    next_item_id,     \* the id the service gives the next inserted item
    last_move         \* the last move_video_to_playlist call and what it returned

organizer_vars == <<playlists_data, load_result, categorized, plan, input, analysis>>

manager_vars == <<youtube, remote, next_item_id, last_move>>

vars == <<organizer_vars, manager_vars>>

None == [none |-> TRUE]

\* dict.get(key, default)
Get(d, key, default) == IF key \in DOMAIN d THEN d[key] ELSE default

(***************************************************************************)
(* The registry, in its definition order (a dict iterates in insertion     *)
(* order).                                                                 *)
(***************************************************************************)
CategoryOrder ==
    << "AI_Programming",
       "Investment_Finance",
       "Health_Wellness",
       "Gaming",
       "Technology_Hardware",
       "Music_Relaxation",
       "Education_Learning" >>

categories ==
    ("AI_Programming" :>
        [keywords |-> <<
            <<"a", "i">>,
            <<"c", "l", "a", "u", "d", "e">>,
            <<"c", "o", "d", "i", "n", "g">>,
            <<"p", "r", "o", "g", "r", "a", "m", "m", "i", "n", "g">>,
            <<"v", "i", "b", "e", " ", "c", "o", "d", "i", "n", "g">>,
            <<"c", "u", "r", "s", "o", "r">>,
            <<"s", "u", "p", "e", "r", "c", "l", "a", "u", "d", "e">>
         >>,
         description |-> <<"A", "I", "U+7F16", "U+7A0B", "U+5F00", "U+53D1">>,
         suggested_name |-> <<"U+1F916", " ", "A", "I", "U+7F16", "U+7A0B", "U+5F00", "U+53D1">>])
    @@ ("Investment_Finance" :>
        [keywords |-> <<
            <<"b", "i", "t", "c", "o", "i", "n">>,
            <<"c", "r", "y", "p", "t", "o">>,
            <<"i", "n", "v", "e", "s", "t", "m", "e", "n", "t">>,
            <<"f", "i", "n", "a", "n", "c", "e">>,
            <<"t", "r", "a", "d", "i", "n", "g">>,
            <<"U+52A0", "U+5BC6">>,
            <<"U+6295", "U+8D44">>
         >>,
         description |-> <<"U+6295", "U+8D44", "U+7406", "U+8D22">>,
         suggested_name |-> <<"U+1F4B0", " ", "U+6295", "U+8D44", "U+7406", "U+8D22">>])
    @@ ("Health_Wellness" :>
        [keywords |-> <<
            <<"U+5EB7", "U+590D">>,
            <<"U+5065", "U+5EB7">>,
            <<"U+7B4B", "U+819C">>,
            <<"U+7269", "U+7406", "U+6CBB", "U+7597">>,
            <<"h", "e", "a", "l", "t", "h">>,
            <<"w", "e", "l", "l", "n", "e", "s", "s">>,
            <<"t", "h", "e", "r", "a", "p", "y">>
         >>,
         description |-> <<"U+5065", "U+5EB7", "U+517B", "U+751F">>,
         suggested_name |-> <<"U+1F3E5", " ", "U+5065", "U+5EB7", "U+517B", "U+751F">>])
    @@ ("Gaming" :>
        [keywords |-> <<
            <<"U+9ED1", "U+795E", "U+8BDD">>,
            <<"U+6E38", "U+620F">>,
            <<"g", "a", "m", "e">>,
            <<"g", "a", "m", "i", "n", "g">>,
            <<"w", "u", "k", "o", "n", "g">>,
            <<"U+653B", "U+7565">>
         >>,
         description |-> <<"U+6E38", "U+620F", "U+5A31", "U+4E50">>,
         suggested_name |-> <<"U+1F3AE", " ", "U+6E38", "U+620F", "U+5A31", "U+4E50">>])
    @@ ("Technology_Hardware" :>
        [keywords |-> <<
            <<"p", "c">>,
            <<"d", "i", "y">>,
            <<"h", "a", "r", "d", "w", "a", "r", "e">>,
            <<"t", "e", "c", "h">>,
            <<"c", "o", "m", "p", "u", "t", "e", "r">>,
            <<"r", "t", "x">>,
            <<"c", "p", "u">>
         >>,
         description |-> <<"U+79D1", "U+6280", "U+786C", "U+4EF6">>,
         suggested_name |-> <<"U+1F527", " ", "U+79D1", "U+6280", "U+786C", "U+4EF6">>])
    @@ ("Music_Relaxation" :>
        [keywords |-> <<
            <<"m", "u", "s", "i", "c">>,
            <<"l", "o", "-", "f", "i">>,
            <<"l", "o", "f", "i">>,
            <<"r", "e", "l", "a", "x", "a", "t", "i", "o", "n">>,
            <<"U+97F3", "U+4E50">>,
            <<"U+653E", "U+677E">>,
            <<"j", "a", "z", "z">>
         >>,
         description |-> <<"U+97F3", "U+4E50", "U+653E", "U+677E">>,
         suggested_name |-> <<"U+1F3B5", " ", "U+97F3", "U+4E50", "U+653E", "U+677E">>])
    @@ ("Education_Learning" :>
        [keywords |-> <<
            <<"t", "u", "t", "o", "r", "i", "a", "l">>,
            <<"e", "d", "u", "c", "a", "t", "i", "o", "n">>,
            <<"l", "e", "a", "r", "n", "i", "n", "g">>,
            <<"U+6559", "U+7A0B">>,
            <<"U+5B66", "U+4E60">>,
            <<"U+8BFE", "U+7A0B">>
         >>,
         description |-> <<"U+6559", "U+80B2", "U+5B66", "U+4E60">>,
         suggested_name |-> <<"U+1F4DA", " ", "U+6559", "U+80B2", "U+5B66", "U+4E60">>])

RECURSIVE SumSeq(_)
SumSeq(s) == IF s = <<>> THEN 0 ELSE Head(s) + SumSeq(Tail(s))

(***************************************************************************)
(* str.lower() on the characters the model uses: ASCII letters fold, every *)
(* other character of the model (CJK, emoji, digits, space) is unchanged.  *)
(***************************************************************************)
UpperToLower ==
    "A" :> "a" @@ "B" :> "b" @@ "C" :> "c" @@ "D" :> "d" @@ "E" :> "e" @@
    "F" :> "f" @@ "G" :> "g" @@ "H" :> "h" @@ "I" :> "i" @@ "J" :> "j" @@
    "K" :> "k" @@ "L" :> "l" @@ "M" :> "m" @@ "N" :> "n" @@ "O" :> "o" @@
    "P" :> "p" @@ "Q" :> "q" @@ "R" :> "r" @@ "S" :> "s" @@ "T" :> "t" @@
    "U" :> "u" @@ "V" :> "v" @@ "W" :> "w" @@ "X" :> "x" @@ "Y" :> "y" @@
    "Z" :> "z"

lower(s) ==
    [i \in 1..Len(s) |-> IF s[i] \in DOMAIN UpperToLower THEN UpperToLower[s[i]] ELSE s[i]]

\* The keyword, read as the regular expression it is (every keyword of the
\* registry is a literal), matches the text at position pos.
MatchAt(keyword, text, pos) ==
    /\ pos >= 1
    /\ pos + Len(keyword) - 1 <= Len(text)
    /\ SubSeq(text, pos, pos + Len(keyword) - 1) = keyword

\* findall_from resuming one character after a match's start.
RECURSIVE findall_from_overlapping(_, _, _)
findall_from_overlapping(keyword, text, pos) ==
    IF pos + Len(keyword) - 1 > Len(text) THEN 0
    ELSE IF MatchAt(keyword, text, pos)
         THEN 1 + findall_from_overlapping(keyword, text, pos + 1)
         ELSE findall_from_overlapping(keyword, text, pos + 1)

\* len(re.findall(keyword, text)): the scan takes the leftmost match and
\* resumes at its end.
RECURSIVE findall_from(_, _, _)
findall_from(keyword, text, pos) ==
    IF pos + Len(keyword) - 1 > Len(text) THEN 0
    ELSE IF MatchAt(keyword, text, pos)
         THEN 1 + findall_from(keyword, text, pos + Len(keyword))
         ELSE findall_from(keyword, text, pos + 1)

len_findall(keyword, text) == findall_from(keyword, text, 1)

\* len(text.split()): the number of maximal runs of non-whitespace.
Whitespace == {" ", "\t", "\n", "\r", "\f"}

len_split(text) ==
    Cardinality({i \in 1..Len(text) :
        /\ text[i] \notin Whitespace
        /\ (i = 1 \/ text[i - 1] \in Whitespace)})

\* The loop of lines 78-80: video_content += f" {title} {description}".
RECURSIVE video_content_of(_)
video_content_of(videos) ==
    IF videos = <<>> THEN <<>>
    ELSE <<" ">> \o Get(Head(videos), "title", <<>>) \o <<" ">>
         \o Get(Head(videos), "description", <<>>)
         \o video_content_of(Tail(videos))

title_weight == 3
description_weight == 2
video_weight == 1
words_per_unit == 10

\* Lines 92-94: the three match counts of one keyword.
keyword_matches(keyword, title, description, video_content) ==
    [title_matches |-> len_findall(keyword, title),
     description_matches |-> len_findall(keyword, description),
     video_matches |-> len_findall(keyword, video_content)]

\* keyword_score with the title and description weights exchanged.
keyword_score_swapped(m) ==
    m.title_matches * description_weight + m.description_matches * title_weight
        + m.video_matches * video_weight

\* Line 97: what one keyword adds to the score.
keyword_score(m) ==
    m.title_matches * title_weight + m.description_matches * description_weight
        + m.video_matches * video_weight

\* Lines 88-99: the score of one category from its keywords' match counts.
category_score(ms) == SumSeq([k \in 1..Len(ms) |-> keyword_score(ms[k])])

\* max_key_from keeping the last of equal scores.
RECURSIVE max_key_from_last(_, _, _)
max_key_from_last(scores, best, i) ==
    IF i > Len(CategoryOrder) THEN best
    ELSE IF scores[CategoryOrder[i]] >= scores[best]
         THEN max_key_from_last(scores, CategoryOrder[i], i + 1)
         ELSE max_key_from_last(scores, best, i + 1)

\* max(category_scores, key=category_scores.get): the first key, in the
\* dict's order, whose score no other exceeds.
RECURSIVE max_key_from(_, _, _)
max_key_from(scores, best, i) ==
    IF i > Len(CategoryOrder) THEN best
    ELSE IF scores[CategoryOrder[i]] > scores[best]
         THEN max_key_from(scores, CategoryOrder[i], i + 1)
         ELSE max_key_from(scores, best, i + 1)

max_key(scores) == max_key_from(scores, CategoryOrder[1], 2)

MaxOf(S) == CHOOSE x \in S : \A y \in S : y <= x

\* confidence_of without the cap min(..., 1.0).
confidence_of_uncapped(max_score, word_count) ==
    LET tenths == IF word_count > words_per_unit THEN word_count ELSE words_per_unit
    IN [num |-> max_score * words_per_unit, den |-> tenths]

\* Line 109: min(max_score / max(word_count / 10, 1), 1.0) as a fraction.
confidence_of(max_score, word_count) ==
    LET tenths == IF word_count > words_per_unit THEN word_count ELSE words_per_unit
        \* the divisor max(word_count / 10, 1) is tenths / 10
    IN IF max_score * words_per_unit > tenths
       THEN [num |-> 1, den |-> 1]
       ELSE [num |-> max_score * words_per_unit, den |-> tenths]

\* best_category_of without the zero-score test of line 102.
best_category_of_unchecked(category_scores, all_content) ==
    LET best_category == max_key(category_scores)
        max_score == category_scores[best_category]
    IN [category |-> best_category,
        confidence |-> confidence_of(max_score, len_split(all_content))]

\* Lines 101-111: the returned pair, from the scores and the combined text.
best_category_of(category_scores, all_content) ==
    IF MaxOf({category_scores[c] : c \in DOMAIN category_scores}) = 0
    THEN [category |-> "Uncategorized", confidence |-> [num |-> 0, den |-> 1]]
    ELSE LET best_category == max_key(category_scores)
             max_score == category_scores[best_category]
         IN [category |-> best_category,
             confidence |-> confidence_of(max_score, len_split(all_content))]

\* Lines 72-111, with the locals kept beside the returned pair.
analyze_playlist_content(playlist) ==
    LET title == lower(Get(playlist, "title", <<>>))
        description == lower(Get(playlist, "description", <<>>))
        video_content == lower(video_content_of(Get(playlist, "videos", <<>>)))
        all_content == title \o <<" ">> \o description \o <<" ">> \o video_content
        matches == [c \in DOMAIN categories |->
                      [k \in 1..Len(categories[c].keywords) |->
                          keyword_matches(categories[c].keywords[k],
                                          title, description, video_content)]]
        category_scores == [c \in DOMAIN categories |-> category_score(matches[c])]
    IN [playlist |-> playlist, title |-> title,
        description |-> description, video_content |-> video_content,
        all_content |-> all_content, matches |-> matches,
        category_scores |-> category_scores]
       @@ best_category_of(category_scores, all_content)

(***************************************************************************)
(* A dict that is filled in a loop keeps its insertion order: keys is the  *)
(* order, val the mapping.                                                 *)
(***************************************************************************)
EmptyDict == [keys |-> <<>>, val |-> <<>>]

\* DictAppend with the list replaced instead of extended.
DictAppend_overwrite(d, key, x) ==
    IF key \in DOMAIN d.val
    THEN [d EXCEPT !.val[key] = <<x>>]
    ELSE [keys |-> Append(d.keys, key), val |-> d.val @@ (key :> <<x>>)]

\* defaultdict(list): categorized[key].append(x)
DictAppend(d, key, x) ==
    IF key \in DOMAIN d.val
    THEN [d EXCEPT !.val[key] = Append(@, x)]
    ELSE [keys |-> Append(d.keys, key), val |-> d.val @@ (key :> <<x>>)]

\* d[key] = x for a key not yet in d
DictPut(d, key, x) == [keys |-> Append(d.keys, key), val |-> d.val @@ (key :> x)]

\* playlist_info reading an absent video_count as 1.
playlist_info_default_one(playlist) ==
    LET a == analyze_playlist_content(playlist)
    IN [original_data |-> playlist,
        category |-> a.category,
        confidence |-> a.confidence,
        video_count |-> Get(playlist, "video_count", 1),
        title |-> Get(playlist, "title", <<>>),
        id |-> Get(playlist, "id", "")]

\* Lines 123-130.
playlist_info(playlist) ==
    LET a == analyze_playlist_content(playlist)
    IN [original_data |-> playlist,
        category |-> a.category,
        confidence |-> a.confidence,
        video_count |-> Get(playlist, "video_count", 0),
        title |-> Get(playlist, "title", <<>>),
        id |-> Get(playlist, "id", "")]

\* Lines 120-132: the loop over the snapshot's playlists.
RECURSIVE categorize_loop(_, _)
categorize_loop(playlists, acc) ==
    IF playlists = <<>> THEN acc
    ELSE LET info == playlist_info(Head(playlists))
         IN categorize_loop(Tail(playlists), DictAppend(acc, info.category, info))

\* Lines 113-134.
categorize_playlists(data) ==
    IF data = None THEN EmptyDict
    ELSE categorize_loop(data.playlists, EmptyDict)

\* round(confidence, 2), in hundredths, ties to even.
round2(c) ==
    LET q == (c.num * 100) \div c.den
        r == (c.num * 100) % c.den
        up == 2 * r > c.den \/ (2 * r = c.den /\ q % 2 = 1)
    IN [num |-> IF up THEN q + 1 ELSE q, den |-> 100]

video_counts(playlists) == [i \in 1..Len(playlists) |-> playlists[i].video_count]

titles_of(playlists) == [i \in 1..Len(playlists) |-> playlists[i].title]

\* category_summary with total_videos counting the playlists.
category_summary_count(category_info, category, playlists) ==
    [suggested_name |-> Get(category_info, "suggested_name", category),
     description |-> Get(category_info, "description", <<>>),
     playlists |-> Len(playlists),
     total_videos |-> Len(playlists),
     playlist_details |->
        [i \in 1..Len(playlists) |->
            [title |-> playlists[i].title,
             video_count |-> playlists[i].video_count,
             confidence |-> round2(playlists[i].confidence),
             id |-> playlists[i].id]]]

\* Lines 155-166.
category_summary(category_info, category, playlists) ==
    [suggested_name |-> Get(category_info, "suggested_name", category),
     description |-> Get(category_info, "description", <<>>),
     playlists |-> Len(playlists),
     total_videos |-> SumSeq(video_counts(playlists)),
     playlist_details |->
        [i \in 1..Len(playlists) |->
            [title |-> playlists[i].title,
             video_count |-> playlists[i].video_count,
             confidence |-> round2(playlists[i].confidence),
             id |-> playlists[i].id]]]

\* merge_suggestion listing the titles newest first.
merge_suggestion_reversed(category_info, category, playlists) ==
    [category |-> category,
     target_name |-> Get(category_info, "suggested_name", category),
     playlists_to_merge |->
        [i \in 1..Len(playlists) |-> playlists[Len(playlists) + 1 - i].title],
     total_videos |-> SumSeq(video_counts(playlists))]

\* Lines 169-175.
merge_suggestion(category_info, category, playlists) ==
    [category |-> category,
     target_name |-> Get(category_info, "suggested_name", category),
     playlists_to_merge |-> titles_of(playlists),
     total_videos |-> SumSeq(video_counts(playlists))]

\* rename_suggestions_for without the comparison of line 181.
rename_suggestions_for_always(category_info, category, playlists) ==
    LET playlist == playlists[1]
        suggested_name == Get(category_info, "suggested_name", category)
    IN << [current_name |-> playlist.title,
           suggested_name |-> suggested_name,
           category |-> category,
           id |-> playlist.id] >>

\* Lines 178-187: the rename suggestions one single-member category adds.
rename_suggestions_for(category_info, category, playlists) ==
    LET playlist == playlists[1]
        suggested_name == Get(category_info, "suggested_name", category)
    IN IF playlist.title # suggested_name
       THEN << [current_name |-> playlist.title,
                suggested_name |-> suggested_name,
                category |-> category,
                id |-> playlist.id] >>
       ELSE <<>>

\* plan_step with the rename branch as an independent `if len(playlists) >= 1`.
plan_step_both(p, category, playlists) ==
    IF category = "Uncategorized" THEN p
    ELSE LET category_info == Get(categories, category, <<>>)
             with_summary ==
                [p EXCEPT !.categories =
                    DictPut(@, category, category_summary(category_info, category, playlists))]
             with_merge ==
                IF Len(playlists) > 1
                THEN [with_summary EXCEPT !.merge_suggestions =
                        Append(@, merge_suggestion(category_info, category, playlists))]
                ELSE with_summary
         IN IF Len(playlists) >= 1
            THEN [with_merge EXCEPT !.rename_suggestions =
                    @ \o rename_suggestions_for(category_info, category, playlists)]
            ELSE with_merge

\* Lines 149-187: one iteration of the loop over categorized.items().
plan_step(p, category, playlists) ==
    IF category = "Uncategorized" THEN p
    ELSE LET category_info == Get(categories, category, <<>>)
             with_summary ==
                [p EXCEPT !.categories =
                    DictPut(@, category, category_summary(category_info, category, playlists))]
         IN IF Len(playlists) > 1
            THEN [with_summary EXCEPT !.merge_suggestions =
                    Append(@, merge_suggestion(category_info, category, playlists))]
            ELSE IF Len(playlists) = 1
            THEN [with_summary EXCEPT !.rename_suggestions =
                    @ \o rename_suggestions_for(category_info, category, playlists)]
            ELSE with_summary

RECURSIVE plan_loop(_, _, _)
plan_loop(p, cat, i) ==
    IF i > Len(cat.keys) THEN p
    ELSE plan_loop(plan_step(p, cat.keys[i], cat.val[cat.keys[i]]), cat, i + 1)

\* delete_suggestions_of taking only the empty playlists.
delete_suggestions_of_empty(cat) ==
    IF "Uncategorized" \in DOMAIN cat.val
    THEN LET small(playlist) == playlist.video_count < 1
             picked == SelectSeq(cat.val["Uncategorized"], small)
         IN [i \in 1..Len(picked) |->
                [title |-> picked[i].title,
                 video_count |-> picked[i].video_count,
                 reason |-> <<"U+89C6", "U+9891", "U+6570", "U+91CF", "U+8FC7", "U+5C11">>,
                 id |-> picked[i].id]]
    ELSE <<>>

\* Lines 190-201.
delete_suggestions_of(cat) ==
    IF "Uncategorized" \in DOMAIN cat.val
    THEN LET small(playlist) == playlist.video_count <= 1
             picked == SelectSeq(cat.val["Uncategorized"], small)
         IN [i \in 1..Len(picked) |->
                [title |-> picked[i].title,
                 video_count |-> picked[i].video_count,
                 reason |-> <<"U+89C6", "U+9891", "U+6570", "U+91CF", "U+8FC7", "U+5C11">>,
                 id |-> picked[i].id]]
    ELSE <<>>

\* reorganization_plan counting the playlists itself for original_count.
reorganization_plan_counted(data, cat, now) ==
    LET empty == [timestamp |-> now,
                  original_count |-> Len(data.playlists),
                  categories |-> EmptyDict,
                  merge_suggestions |-> <<>>,
                  rename_suggestions |-> <<>>,
                  delete_suggestions |-> <<>>]
    IN [plan_loop(empty, cat, 1) EXCEPT !.delete_suggestions = delete_suggestions_of(cat)]

\* Lines 136-203, for a loaded snapshot; now is datetime.now().isoformat().
reorganization_plan(data, cat, now) ==
    LET empty == [timestamp |-> now,
                  original_count |-> data.total_playlists,
                  categories |-> EmptyDict,
                  merge_suggestions |-> <<>>,
                  rename_suggestions |-> <<>>,
                  delete_suggestions |-> <<>>]
    IN [plan_loop(empty, cat, 1) EXCEPT !.delete_suggestions = delete_suggestions_of(cat)]

(***************************************************************************)
(* The playlist manager (src/youtube_playlist_manager.py) and the remote   *)
(* account it edits.  An item of a playlist is [id, video_id]; any remote  *)
(* call may raise.                                                         *)
(***************************************************************************)
MaxItems == 2
MaxMoves == 2
max_results == 50
default_position == 0

PlaylistIds == {"PLA", "PLB"}
VideoIds == {"v1", "v2"}

\* playlistItems().insert at a 0-based position.
insert_item(items, position, item) ==
    SubSeq(items, 1, position) \o <<item>> \o SubSeq(items, position + 1, Len(items))

\* playlistItems().delete(id=...): the item leaves whichever playlist holds it.
delete_item(account, item_id) ==
    [pl \in DOMAIN account |->
        LET keep(item) == item.id # item_id
        IN SelectSeq(account[pl], keep)]

\* The number of list requests the paging loop of lines 138-163 sends.
page_count(items) ==
    IF Len(items) = 0 THEN 1 ELSE (Len(items) + max_results - 1) \div max_results

\* Lines 128-169: every page's items, or [] when the client is missing or
\* the request of page failed_page raises (0: none does).
get_playlist_videos(client, items, failed_page) ==
    IF ~client THEN <<>>
    ELSE IF failed_page >= 1 /\ failed_page <= page_count(items) THEN <<>>
    ELSE [i \in 1..Len(items) |->
            [playlist_item_id |-> items[i].id, video_id |-> items[i].video_id]]

\* Lines 282-286: the playlist item id of the first listed entry of the
\* video, 0 for None.
RECURSIVE find_playlist_item(_, _)
find_playlist_item(source_videos, video_id) ==
    IF source_videos = <<>> THEN 0
    ELSE IF Head(source_videos).video_id = video_id
         THEN Head(source_videos).playlist_item_id
         ELSE find_playlist_item(Tail(source_videos), video_id)

\* Lines 256-297: the account after the call and the value returned.  call
\* holds the arguments and which of the remote requests raise.
move_video_to_playlist(account, client, item_id, call) ==
    IF ~client THEN [account |-> account, returned |-> FALSE]
    ELSE IF ~call.insert_ok \/ call.position > Len(account[call.target])
    THEN [account |-> account, returned |-> FALSE]
    ELSE LET added == [account EXCEPT ![call.target] =
                          insert_item(@, call.position,
                                      [id |-> item_id, video_id |-> call.video_id])]
             source_videos ==
                get_playlist_videos(client, added[call.source], call.failed_page)
             playlist_item_id == find_playlist_item(source_videos, call.video_id)
         IN IF playlist_item_id # 0
            THEN IF call.delete_ok
                 THEN [account |-> delete_item(added, playlist_item_id), returned |-> TRUE]
                 ELSE [account |-> added, returned |-> FALSE]
            ELSE [account |-> added, returned |-> TRUE]

\* The manager has not been constructed.
NoManager ==
    /\ youtube = FALSE
    /\ remote = [pl \in PlaylistIds |-> <<>>]
    /\ next_item_id = 1
    /\ last_move = None

RECURSIVE VideoLists(_)
VideoLists(n) ==
    IF n = 0 THEN {<<>>}
    ELSE VideoLists(n - 1) \cup {Append(l, v) : l \in VideoLists(n - 1), v \in VideoIds}

\* An account whose playlists hold the given videos, items numbered from 1.
Account(a, b) ==
    [pl \in PlaylistIds |->
        IF pl = "PLA"
        THEN [i \in 1..Len(a) |-> [id |-> i, video_id |-> a[i]]]
        ELSE [i \in 1..Len(b) |-> [id |-> Len(a) + i, video_id |-> b[i]]]]

\* Lines 35-52 and 54-82: the client is built unless the credentials are
\* missing; the account holds up to MaxItems items per playlist.
InitManager ==
    /\ playlists_data = None
    /\ load_result = None
    /\ categorized = None
    /\ plan = None
    /\ input = None
    /\ analysis = None
    /\ youtube \in BOOLEAN
    /\ \E a \in VideoLists(MaxItems), b \in VideoLists(MaxItems) :
         /\ remote = Account(a, b)
         /\ next_item_id = Len(a) + Len(b) + 1
    /\ last_move = None

MoveCount == IF last_move = None THEN 0 ELSE last_move.count

Calls ==
    [video_id : VideoIds, source : PlaylistIds, target : PlaylistIds,
     position : {default_position, 1}, insert_ok : BOOLEAN,
     failed_page : 0..1, delete_ok : BOOLEAN]

\* Lines 256-297, one call with any arguments and any remote failures.
MoveVideoToPlaylist ==
    /\ MoveCount < MaxMoves
    /\ \E call \in Calls :
         LET out == move_video_to_playlist(remote, youtube, next_item_id, call)
         IN /\ remote' = out.account
            /\ next_item_id' = IF out.account = remote /\ ~out.returned
                               THEN next_item_id ELSE next_item_id + 1
            /\ last_move' = [video_id |-> call.video_id, source |-> call.source,
                             target |-> call.target, returned |-> out.returned,
                             before |-> remote, count |-> MoveCount + 1]
    /\ UNCHANGED <<youtube, organizer_vars>>

NextManager == MoveVideoToPlaylist

SpecManager == InitManager /\ [][NextManager]_vars

(***************************************************************************)
(* Sample texts and videos of the inputs.                                   *)
(***************************************************************************)
ExampleTitle ==
    <<"A", "I", " ", "C", "o", "d", "i", "n", "g", " ", "w", "i", "t", "h", " ",
      "C", "l", "a", "u", "d", "e">>

\* Twelve words, none of them a keyword.
Filler ==
    <<"x", " ", "x", " ", "x", " ", "x", " ", "x", " ", "x", " ",
      "x", " ", "x", " ", "x", " ", "x", " ", "x", " ", "x">>

VibeVideo == [title |-> <<"V", "i", "b", "e">>,
              description |-> <<"c", "o", "d", "i", "n", "g">>]
JazzVideo == [title |-> <<"j", "a", "z", "z">>, description |-> Filler]
BareVideo == [title |-> <<"p", "c">>]

(***************************************************************************)
(* Snapshots: up to MaxPlaylists playlists, repeats allowed, with a stated *)
(* total that is the list's length or one more (a stale count).            *)
(***************************************************************************)
MaxPlaylists == 3

PlaylistG1 ==
    [id |-> "PL1", title |-> <<"G", "a", "m", "e">>, description |-> <<>>,
     video_count |-> 2, videos |-> <<>>]
PlaylistG2 ==
    [id |-> "PL2", title |-> <<"W", "u", "k", "o", "n", "g">>, description |-> <<>>,
     video_count |-> 3, videos |-> <<BareVideo>>]
PlaylistM1 ==
    [id |-> "PL3", title |-> categories["Music_Relaxation"].suggested_name,
     description |-> <<>>, video_count |-> 1, videos |-> <<>>]
PlaylistM2 == [description |-> <<"j", "a", "z", "z">>]
PlaylistU0 ==
    [id |-> "PL5", title |-> <<"m", "i", "s", "c">>, description |-> <<>>,
     video_count |-> 0, videos |-> <<>>]
PlaylistU2 ==
    [id |-> "PL6", title |-> <<"o", "l", "d">>, video_count |-> 2]

PlaylistU1 == [title |-> <<"m", "i", "s", "c">>, video_count |-> 1, videos |-> <<>>]

PlanPlaylists ==
    {PlaylistG1, PlaylistG2, PlaylistM1, PlaylistM2, PlaylistU0, PlaylistU1, PlaylistU2}

RECURSIVE Lists(_)
Lists(n) ==
    IF n = 0 THEN {<<>>}
    ELSE Lists(n - 1) \cup {Append(l, p) : l \in Lists(n - 1), p \in PlanPlaylists}

Snapshots ==
    UNION {{[total_playlists |-> n, playlists |-> l] : n \in {Len(l), Len(l) + 1}} :
            l \in Lists(MaxPlaylists)}

Timestamps == {"2024-01-01T00:00:00", "2024-01-02T00:00:00"}

Init ==
    /\ playlists_data = None
    /\ load_result = None
    /\ categorized = None
    /\ plan = None
    /\ input = None
    /\ analysis = None
    /\ NoManager

\* Lines 58-70: the file holds some snapshot, or is missing or malformed.
LoadData ==
    /\ load_result = None
    /\ \/ \E s \in Snapshots : playlists_data' = s /\ load_result' = [returned |-> TRUE]
       \/ playlists_data' = playlists_data /\ load_result' = [returned |-> FALSE]
    /\ UNCHANGED <<categorized, plan, input, analysis, manager_vars>>

\* Lines 136-203.  Without a snapshot categorize_playlists returns {} and
\* line 142 subscripts None.
GenerateReorganizationPlan ==
    /\ plan = None
    /\ categorized' = categorize_playlists(playlists_data)
    /\ IF playlists_data = None
       THEN plan' = [raised |-> "TypeError"]
       ELSE \E now \in Timestamps :
                plan' = reorganization_plan(playlists_data, categorized', now)
    /\ UNCHANGED <<playlists_data, load_result, input, analysis, manager_vars>>

Next == LoadData \/ GenerateReorganizationPlan

Spec == Init /\ [][Next]_vars

(***************************************************************************)
(* Inputs of the analyzer: texts glued from a few fragments, among them    *)
(* keywords of different categories, a self-overlapping repeat             *)
(* ("health" + "ealth"), a keyword inside a longer word and upper case.    *)
(***************************************************************************)
MaxFrags == 2

Fragments ==
    { <<"A", "I">>,
      <<" ">>,
      <<"h", "e", "a", "l", "t", "h">>,
      <<"e", "a", "l", "t", "h">>,
      <<"G", "a", "m", "e">>,
      <<"t", "r", "a", "i", "n", "i", "n", "g">> }

RECURSIVE Texts(_)
Texts(n) ==
    IF n = 0 THEN {<<>>}
    ELSE Texts(n - 1) \cup {t \o f : t \in Texts(n - 1), f \in Fragments}

AnalyzerTitles == Texts(MaxFrags) \cup {ExampleTitle, categories["Music_Relaxation"].suggested_name}
AnalyzerDescriptions == {<<>>, <<"L", "o", "f", "i", " ", "P", "C">>}
AnalyzerVideos ==
    {<<>>, <<VibeVideo>>, <<JazzVideo>>, <<JazzVideo, JazzVideo>>, <<BareVideo, VibeVideo>>}

\* A dict with the given keys present.
Dict(keys, title, description, videos) ==
    [k \in keys |-> CASE k = "title" -> title
                      [] k = "description" -> description
                      [] k = "videos" -> videos]

AnalyzerInputs ==
    {Dict({"title", "description", "videos"}, t, d, v) :
        t \in AnalyzerTitles, d \in AnalyzerDescriptions, v \in AnalyzerVideos}
    \cup {Dict({"description", "videos"}, <<>>, d, v) :
            d \in AnalyzerDescriptions, v \in AnalyzerVideos}
    \cup {Dict({"title", "videos"}, t, <<>>, v) :
            t \in AnalyzerTitles, v \in AnalyzerVideos}
    \cup {Dict({"title", "description"}, t, d, <<>>) :
            t \in AnalyzerTitles, d \in AnalyzerDescriptions}

(***************************************************************************)
(* The analyzer on its own: one call of analyze_playlist_content.          *)
(***************************************************************************)
InitAnalyzer ==
    /\ playlists_data = None
    /\ load_result = None
    /\ categorized = None
    /\ plan = None
    /\ input \in AnalyzerInputs
    /\ analysis = None
    /\ NoManager

AnalyzePlaylistContent ==
    /\ analysis = None
    /\ analysis' = analyze_playlist_content(input)
    /\ UNCHANGED <<playlists_data, load_result, categorized, plan, input, manager_vars>>

NextAnalyzer == AnalyzePlaylistContent

SpecAnalyzer == InitAnalyzer /\ [][NextAnalyzer]_vars

(***************************************************************************)
(* Properties.                                                             *)
(***************************************************************************)
\* generate_reorganization_plan has returned a plan for the loaded snapshot.
PlanBuilt == plan # None /\ "raised" \notin DOMAIN plan

Analyzed == analysis # None

RegistryKeys == {CategoryOrder[i] : i \in 1..Len(CategoryOrder)}

OrderIndex(c) == CHOOSE i \in 1..Len(CategoryOrder) : CategoryOrder[i] = c

\* How often x occurs in the sequence s.
Occurrences(s, x) == Cardinality({i \in 1..Len(s) : s[i] = x})

\* All members of all groups, as one sequence of the playlists they wrap.
RECURSIVE GroupedFrom(_, _)
GroupedFrom(cat, i) ==
    IF i > Len(cat.keys) THEN <<>>
    ELSE [j \in 1..Len(cat.val[cat.keys[i]]) |-> cat.val[cat.keys[i]][j].original_data]
         \o GroupedFrom(cat, i + 1)

\* The category analyze_playlist_content returns for each input playlist.
InputCategories ==
    [i \in 1..Len(playlists_data.playlists) |->
        analyze_playlist_content(playlists_data.playlists[i]).category]

\* The subsequence of s at the positions where cats is c.
RECURSIVE Pick(_, _, _)
Pick(s, cats, c) ==
    IF s = <<>> THEN <<>>
    ELSE (IF Head(cats) = c THEN <<Head(s)>> ELSE <<>>) \o Pick(Tail(s), Tail(cats), c)

\* The input playlists of category c, in input order.
InputOf(cats, c) == Pick(playlists_data.playlists, cats, c)

\* C1: categorize_playlists puts every input playlist in exactly one group
\* exactly once: the groups together hold the input as a multiset, each
\* playlist is under the key analyze_playlist_content returns for it, and
\* each group keeps the input order.
C1_EveryPlaylistOnce ==
    PlanBuilt =>
        LET all == GroupedFrom(categorized, 1)
            inp == playlists_data.playlists
            cats == InputCategories
        IN /\ Len(all) = Len(inp)
           /\ \A p \in PlanPlaylists : Occurrences(all, p) = Occurrences(inp, p)
           /\ Cardinality({categorized.keys[i] : i \in 1..Len(categorized.keys)})
                = Len(categorized.keys)
           /\ DOMAIN categorized.val = {categorized.keys[i] : i \in 1..Len(categorized.keys)}
           /\ \A k \in DOMAIN categorized.val :
                LET group == categorized.val[k]
                IN /\ group # <<>>
                   /\ \A j \in 1..Len(group) :
                        /\ group[j].category = k
                        /\ analyze_playlist_content(group[j].original_data).category = k
                   /\ [j \in 1..Len(group) |-> group[j].original_data] = InputOf(cats, k)

C1_Witness ==
    /\ PlanBuilt
    /\ Len(categorized.keys) >= 2
    /\ \E k \in DOMAIN categorized.val :
         /\ Len(categorized.val[k]) >= 2
         /\ categorized.val[k][1].original_data # categorized.val[k][2].original_data

\* C2: analyze_playlist_content returns ("Uncategorized", 0.0) exactly when
\* every category's raw score is zero, and a registry category it returns
\* has a strictly positive raw score.
C2_UncategorizedIffAllZero ==
    Analyzed =>
        LET allZero == \A c \in RegistryKeys : analysis.category_scores[c] = 0
        IN /\ (analysis.category = "Uncategorized" /\ analysis.confidence.num = 0) <=> allZero
           /\ analysis.category \in RegistryKeys \cup {"Uncategorized"}
           /\ analysis.category \in RegistryKeys =>
                analysis.category_scores[analysis.category] > 0

C2_Witness ==
    /\ Analyzed
    /\ analysis.category = "Uncategorized"
    /\ analysis.all_content # <<" ", " ">>
    /\ \A c \in RegistryKeys : analysis.category_scores[c] = 0

\* How many suggestions of the list name category c.
SuggestionsFor(list, c) == Cardinality({i \in 1..Len(list) : list[i].category = c})

\* C3: no category is named by both a merge and a rename suggestion, and
\* each list names a category at most once.
C3_MergeRenameExclusive ==
    PlanBuilt =>
        \A c \in RegistryKeys \cup {"Uncategorized"} :
            SuggestionsFor(plan.merge_suggestions, c)
                + SuggestionsFor(plan.rename_suggestions, c) <= 1

C3_Witness ==
    /\ PlanBuilt
    /\ plan.merge_suggestions # <<>>
    /\ plan.rename_suggestions # <<>>

\* C4: the total_videos of all category summaries plus the video counts of
\* the "Uncategorized" group add up to the video counts of the input, a
\* missing video_count counting as 0.
SummaryVideos ==
    SumSeq([i \in 1..Len(plan.categories.keys) |->
                plan.categories.val[plan.categories.keys[i]].total_videos])

UncategorizedVideos ==
    IF "Uncategorized" \in DOMAIN categorized.val
    THEN SumSeq(video_counts(categorized.val["Uncategorized"]))
    ELSE 0

InputVideos ==
    SumSeq([i \in 1..Len(playlists_data.playlists) |->
                Get(playlists_data.playlists[i], "video_count", 0)])

C4_VideoConservation ==
    PlanBuilt => SummaryVideos + UncategorizedVideos = InputVideos

C4_Witness ==
    /\ PlanBuilt
    /\ SummaryVideos > 0
    /\ UncategorizedVideos > 0
    /\ \E i \in 1..Len(playlists_data.playlists) :
         "video_count" \notin DOMAIN playlists_data.playlists[i]

\* C5: when several categories tie for the maximal positive score, the one
\* that comes first in the registry's definition order is returned.
TopCategories ==
    {c \in RegistryKeys :
        \A d \in RegistryKeys : analysis.category_scores[d] <= analysis.category_scores[c]}

C5_TieBreakByRegistryOrder ==
    (Analyzed /\ analysis.category # "Uncategorized") =>
        /\ analysis.category \in TopCategories
        /\ \A c \in TopCategories : OrderIndex(analysis.category) <= OrderIndex(c)

C5_Witness ==
    /\ Analyzed
    /\ analysis.category # "Uncategorized"
    /\ Cardinality(TopCategories) >= 2

\* The positions at which the keyword occurs in the text as a substring.
OccurrencePositions(keyword, text) ==
    {i \in 1..Len(text) : MatchAt(keyword, text, i)}

\* The three buckets of the analyzed playlist and the count kept for each.
BucketCounts(c, k) ==
    { <<analysis.title, analysis.matches[c][k].title_matches>>,
      <<analysis.description, analysis.matches[c][k].description_matches>>,
      <<analysis.video_content, analysis.matches[c][k].video_matches>> }

\* C6 as stated: the count of a keyword in a bucket is the number of
\* positions at which it occurs in the lowercased bucket, overlapping
\* occurrences each counted.
C6_CountsEveryPosition ==
    Analyzed =>
        \A c \in RegistryKeys : \A k \in 1..Len(categories[c].keywords) :
            \A b \in BucketCounts(c, k) :
                b[2] = Cardinality(OccurrencePositions(categories[c].keywords[k], b[1]))

\* The occurrences a left-to-right scan counts: an occurrence is counted
\* unless it begins inside an earlier counted occurrence.
CountedPositions(keyword, text) ==
    LET occ == OccurrencePositions(keyword, text)
    IN CHOOSE S \in SUBSET occ :
        \A p \in occ : p \in S <=> ~ \E q \in S : q < p /\ p < q + Len(keyword)

\* C6 as amended: the count of a keyword in a bucket is the number of its
\* occurrences as a substring of the lowercased bucket that do not overlap
\* an earlier counted occurrence (scanning left to right); occurrences
\* inside longer words count.
C6_CountsNonOverlapping ==
    Analyzed =>
        /\ analysis.title = lower(Get(analysis.playlist, "title", <<>>))
        /\ analysis.description = lower(Get(analysis.playlist, "description", <<>>))
        /\ \A c \in RegistryKeys : \A k \in 1..Len(categories[c].keywords) :
            \A b \in BucketCounts(c, k) :
                b[2] = Cardinality(CountedPositions(categories[c].keywords[k], b[1]))

\* Two occurrences of one keyword overlap in the title.
C6_Witness ==
    /\ Analyzed
    /\ \E c \in RegistryKeys : \E k \in 1..Len(categories[c].keywords) :
         LET kw == categories[c].keywords[k]
             occ == OccurrencePositions(kw, analysis.title)
         IN /\ \E p, q \in occ : p < q /\ q < p + Len(kw)
            /\ analysis.matches[c][k].title_matches = 1

\* C7: a category's raw score is the sum over its keywords of 3 x the title
\* occurrences + 2 x the description occurrences + 1 x the occurrences in
\* the video text, a non-negative integer; the playlist titled
\* "AI Coding with Claude" without videos scores AI_Programming at least 6
\* and is categorized AI_Programming.
C7_WeightedScore ==
    Analyzed =>
        /\ \A c \in RegistryKeys :
             /\ analysis.category_scores[c] =
                    SumSeq([k \in 1..Len(categories[c].keywords) |->
                                3 * analysis.matches[c][k].title_matches
                                + 2 * analysis.matches[c][k].description_matches
                                + analysis.matches[c][k].video_matches])
             /\ analysis.category_scores[c] \in Nat
        /\ (/\ Get(analysis.playlist, "title", <<>>) = ExampleTitle
            /\ Get(analysis.playlist, "videos", <<>>) = <<>>)
           => /\ analysis.category_scores["AI_Programming"] >= 6
              /\ analysis.category = "AI_Programming"

C7_Witness ==
    /\ Analyzed
    /\ Get(analysis.playlist, "title", <<>>) = ExampleTitle
    /\ Get(analysis.playlist, "videos", <<>>) = <<>>
    /\ Get(analysis.playlist, "description", <<>>) # <<>>
    /\ analysis.category_scores["AI_Programming"] = 9
    /\ analysis.category_scores["Music_Relaxation"] = 2

\* C8: the confidence lies in [0, 1]; for a categorized playlist it is
\* min(winning_score / max(word_count / 10, 1), 1) with word_count the
\* whitespace-separated words of title, description and video text together.
WordCount ==
    len_split(analysis.title) + len_split(analysis.description)
        + len_split(analysis.video_content)

C8_ConfidenceRange ==
    Analyzed =>
        LET conf == analysis.confidence
            score == analysis.category_scores[analysis.category]
        IN /\ conf.den > 0
           /\ 0 <= conf.num
           /\ conf.num <= conf.den
           /\ analysis.category # "Uncategorized" =>
                IF WordCount <= 10
                THEN \* the divisor is 1
                     IF score >= 1 THEN conf.num = conf.den ELSE conf.num = score * conf.den
                ELSE \* the divisor is word_count / 10
                     IF 10 * score >= WordCount
                     THEN conf.num = conf.den
                     ELSE conf.num * WordCount = 10 * score * conf.den

C8_Witness ==
    /\ Analyzed
    /\ analysis.category # "Uncategorized"
    /\ WordCount > 10
    /\ analysis.category_scores[analysis.category] >= 2
    /\ 0 < analysis.confidence.num
    /\ analysis.confidence.num < analysis.confidence.den

\* The titles and video counts of the input playlists of one category.
InputTitles(members) == [i \in 1..Len(members) |-> Get(members[i], "title", <<>>)]

InputCounts(members) == [i \in 1..Len(members) |-> Get(members[i], "video_count", 0)]

\* C9: a category with more than one member gets exactly one merge
\* suggestion: its suggested display name, the members' titles in input
\* order and the sum of their video counts; a category with fewer than two
\* members gets none.
C9_MergeSuggestions ==
    PlanBuilt =>
        /\ \A i \in 1..Len(plan.merge_suggestions) :
             plan.merge_suggestions[i].category \in RegistryKeys
        /\ LET cats == InputCategories IN \A c \in RegistryKeys :
             LET members == InputOf(cats, c) IN
             IF Len(members) > 1
             THEN /\ SuggestionsFor(plan.merge_suggestions, c) = 1
                  /\ \A i \in 1..Len(plan.merge_suggestions) :
                       plan.merge_suggestions[i].category = c =>
                         /\ plan.merge_suggestions[i].target_name
                                = categories[c].suggested_name
                         /\ plan.merge_suggestions[i].playlists_to_merge = InputTitles(members)
                         /\ plan.merge_suggestions[i].total_videos = SumSeq(InputCounts(members))
             ELSE SuggestionsFor(plan.merge_suggestions, c) = 0

C9_Witness ==
    /\ PlanBuilt
    /\ \E i \in 1..Len(plan.merge_suggestions) :
         /\ plan.merge_suggestions[i].playlists_to_merge
                = <<PlaylistG2.title, PlaylistG1.title>>
         /\ plan.merge_suggestions[i].total_videos = 5
    /\ Len(playlists_data.playlists) = 3

\* C10: a category with exactly one member gets exactly one rename
\* suggestion (current title -> suggested display name) when the title is
\* not exactly the suggested display name, and none when it is.
C10_RenameSuggestions ==
    PlanBuilt =>
        /\ \A i \in 1..Len(plan.rename_suggestions) :
             plan.rename_suggestions[i].category \in RegistryKeys
        /\ LET cats == InputCategories IN \A c \in RegistryKeys :
             LET members == InputOf(cats, c) IN
             IF Len(members) = 1 /\ InputTitles(members)[1] # categories[c].suggested_name
             THEN /\ SuggestionsFor(plan.rename_suggestions, c) = 1
                  /\ \A i \in 1..Len(plan.rename_suggestions) :
                       plan.rename_suggestions[i].category = c =>
                         /\ plan.rename_suggestions[i].current_name = InputTitles(members)[1]
                         /\ plan.rename_suggestions[i].suggested_name
                                = categories[c].suggested_name
             ELSE SuggestionsFor(plan.rename_suggestions, c) = 0

\* A lone Music_Relaxation playlist already carrying the suggested name,
\* beside a lone playlist that is renamed.
C10_Witness ==
    /\ PlanBuilt
    /\ InputOf(InputCategories, "Music_Relaxation") = <<PlaylistM1>>
    /\ SuggestionsFor(plan.rename_suggestions, "Music_Relaxation") = 0
    /\ SuggestionsFor(plan.rename_suggestions, "Gaming") = 1

\* The input playlists that are uncategorized and hold at most one video,
\* in input order.
RECURSIVE DeleteCandidates(_, _)
DeleteCandidates(s, cats) ==
    IF s = <<>> THEN <<>>
    ELSE (IF Head(cats) = "Uncategorized" /\ Get(Head(s), "video_count", 0) <= 1
          THEN <<Head(s)>> ELSE <<>>)
         \o DeleteCandidates(Tail(s), Tail(cats))

\* C11: delete_suggestions holds exactly one entry for each uncategorized
\* playlist with at most one video and no entry for any other playlist, and
\* "Uncategorized" is never a key of the plan's categories.
C11_DeleteSuggestions ==
    PlanBuilt =>
        LET due == DeleteCandidates(playlists_data.playlists, InputCategories)
        IN /\ Len(plan.delete_suggestions) = Len(due)
           /\ \A i \in 1..Len(due) :
                /\ plan.delete_suggestions[i].title = Get(due[i], "title", <<>>)
                /\ plan.delete_suggestions[i].video_count = Get(due[i], "video_count", 0)
                /\ plan.delete_suggestions[i].id = Get(due[i], "id", "")
           /\ "Uncategorized" \notin DOMAIN plan.categories.val
           /\ \A i \in 1..Len(plan.categories.keys) :
                plan.categories.keys[i] # "Uncategorized"

\* Uncategorized playlists with 1 and 2 videos beside a categorized one
\* with a single video: only the first is suggested for deletion.
C11_Witness ==
    /\ PlanBuilt
    /\ \E i, j, k \in 1..Len(playlists_data.playlists) :
         /\ playlists_data.playlists[i] = PlaylistU1
         /\ playlists_data.playlists[j] = PlaylistU2
         /\ playlists_data.playlists[k] = PlaylistM1
    /\ Len(plan.delete_suggestions) = 1
    /\ plan.delete_suggestions[1].video_count = 1

\* C12: for a snapshot with an empty playlist list
\* generate_reorganization_plan does not fail: it returns a plan whose
\* original_count is the snapshot's stated total, with no categories and
\* with empty merge, rename and delete lists.
C12_EmptySnapshotPlan ==
    [][(/\ playlists_data # None
        /\ playlists_data.playlists = <<>>
        /\ plan' # plan)
       => /\ "raised" \notin DOMAIN plan'
          /\ plan'.original_count = playlists_data.total_playlists
          /\ plan'.categories.keys = <<>>
          /\ DOMAIN plan'.categories.val = {}
          /\ plan'.merge_suggestions = <<>>
          /\ plan'.rename_suggestions = <<>>
          /\ plan'.delete_suggestions = <<>>
          /\ categorized' = EmptyDict]_vars

\* A plan built from an empty list whose stated total is not its length.
C12_Witness ==
    /\ PlanBuilt
    /\ playlists_data.playlists = <<>>
    /\ playlists_data.total_playlists = 1
    /\ plan.original_count = 1
    /\ plan.categories = EmptyDict

\* A video and a playlist with every absent field written out as the empty
\* string, the empty sequence or 0.
FilledVideo(v) ==
    [title |-> IF "title" \in DOMAIN v THEN v.title ELSE <<>>,
     description |-> IF "description" \in DOMAIN v THEN v.description ELSE <<>>]

FilledPlaylist(p) ==
    LET videos == IF "videos" \in DOMAIN p THEN p.videos ELSE <<>>
        given == [title |-> IF "title" \in DOMAIN p THEN p.title ELSE <<>>,
                  description |-> IF "description" \in DOMAIN p THEN p.description ELSE <<>>,
                  videos |-> [i \in 1..Len(videos) |-> FilledVideo(videos[i])],
                  video_count |-> IF "video_count" \in DOMAIN p THEN p.video_count ELSE 0]
    IN IF "id" \in DOMAIN p THEN given @@ [id |-> p.id] ELSE given

FilledSnapshot(data) ==
    [data EXCEPT !.playlists = [i \in 1..Len(data.playlists) |-> FilledPlaylist(data.playlists[i])]]

\* A group without the reference to the playlist it was built from.
Stripped(group) ==
    [i \in 1..Len(group) |->
        [category |-> group[i].category, confidence |-> group[i].confidence,
         video_count |-> group[i].video_count, title |-> group[i].title,
         id |-> group[i].id]]

\* C13: a playlist or video whose title, description, videos or video_count
\* is absent is no error: the plan, and each playlist's category and
\* confidence, are those of the snapshot with the absent fields written out
\* as the empty string, the empty sequence or 0.
C13_AbsentFieldsAsDefaults ==
    [][(playlists_data # None /\ plan' # plan)
       => LET filled == FilledSnapshot(playlists_data)
              filledCat == categorize_playlists(filled)
          IN /\ "raised" \notin DOMAIN plan'
             /\ plan' = reorganization_plan(filled, filledCat, plan'.timestamp)
             /\ categorized'.keys = filledCat.keys
             /\ \A k \in DOMAIN filledCat.val :
                  Stripped(categorized'.val[k]) = Stripped(filledCat.val[k])]_vars

\* A plan for a playlist without title, videos and video_count and one
\* whose video has no description.
C13_Witness ==
    /\ PlanBuilt
    /\ \E i, j \in 1..Len(playlists_data.playlists) :
         /\ playlists_data.playlists[i] = PlaylistM2
         /\ playlists_data.playlists[j] = PlaylistG2
    /\ \E i \in 1..Len(plan.rename_suggestions) :
         plan.rename_suggestions[i].current_name = <<>>
    /\ FilledSnapshot(playlists_data) # playlists_data

\* The videos a playlist of the account holds.
VideosIn(account, pl) == {account[pl][i].video_id : i \in 1..Len(account[pl])}

\* C14: move_video_to_playlist moves a video of the source playlist to
\* another playlist: when it returned True the video is in the target and
\* no longer in the source, and when it returned False neither playlist has
\* changed, whichever remote call failed.
C14_MoveIsAllOrNothing ==
    (/\ last_move # None
     /\ last_move.source # last_move.target
     /\ last_move.video_id \in VideosIn(last_move.before, last_move.source))
    => IF last_move.returned
       THEN /\ last_move.video_id \in VideosIn(remote, last_move.target)
            /\ last_move.video_id \notin VideosIn(remote, last_move.source)
       ELSE remote = last_move.before

====
